---- MODULE Spec2Model ----
(***************************************************************************)
(* Model of the scheduler core of nl-kat-coordination (mula):              *)
(*   scheduler/schedulers/scheduler.py  - Scheduler                        *)
(* together with the two collaborators the Scheduler drives and whose      *)
(* code lives outside the modelled sources: the PriorityQueue              *)
(* (scheduler.queues) and the Task/Job store (ctx.task_store,              *)
(* ctx.job_store).  Both collaborators are modelled from their contract    *)
(* in spec.md (sections 4.1, 5 and 6).                                     *)
(*                                                                         *)
(* Several threads call the public operations of one Scheduler.  Every     *)
(* queue operation and every single store call is one atomic step (the     *)
(* queue holds one lock, the store is consistent per record write); the    *)
(* Scheduler's own methods are sequences of such steps and interleave.     *)
(*                                                                         *)
(* Also modelled, each with a specification of its own:                    *)
(*   scheduler/rankers/boefje.py - BoefjeRanker, BoefjeRankerTimeBased     *)
(*   scheduler/connectors/services/octopoes.py - the paging of             *)
(*     get_objects_by_object_types                                         *)
(*   rocky/scheduler.py - push_task and schedule_task                      *)
(* and the workers of run_in_thread (ThreadRunner, from spec.md 5 and 7).  *)
(***************************************************************************)
EXTENDS Integers, Sequences, FiniteSets, TLC

\* ------------------------------------------------------------------ bounds
MaxSize == 1    \* maxsize of the bounded queue
MaxTries == 1   \* largest max_tries of push_item_to_queue_with_timeout
MaxBatch == 2   \* longest list given to push_items_to_queue
MaxCalls == 3   \* pushes and pops called in one run
MaxListeners == 2  \* most listeners registered with a scheduler
MaxWorkers == 2    \* most workers started with run_in_thread
MaxPrior == 11     \* most prior executions the history returns to rank
MaxHalfDays == 16  \* oldest last execution given to rank, in half days
MaxPages == 2      \* most full pages of objects the object graph holds

\* two threads; two item ids; one hash besides the absent hash; two priorities
Threads == {1, 2}
Ids == {1, 2}
NoHash == 0
Hashes == {1}
Priorities == {1, 2}

\* PrioritizedItem: {id, hash|null, priority}; the opaque payload is left out,
\* the scheduler reads no field of it
Items == [id : Ids, hash : Hashes \cup {NoHash}, priority : Priorities]
NoItem == [id |-> 0, hash |-> NoHash, priority |-> 0]

\* pop filters: no filter, or a filter that selects the entries of one hash
NoFilter == -1
Filters == {NoFilter, NoHash} \cup Hashes

\* queue-layer errors (spec.md section 7) and the store's own error
NotAllowedError == "NotAllowedError"
QueueFullError == "QueueFullError"
InvalidPrioritizedItemError == "InvalidPrioritizedItemError"
QueueEmptyError == "QueueEmptyError"
StoreError == "StoreError"
PushErrors == {NotAllowedError, QueueFullError, InvalidPrioritizedItemError}

QUEUED == "QUEUED"
DISPATCHED == "DISPATCHED"
NoJob == 0

VARIABLES
    queue,                  \* PriorityQueue entries, in insertion order
    maxsize,                \* queue.maxsize, 0 = unbounded
    allow_replace,          \* queue.allow_replace
    allow_updates,          \* queue.allow_updates
    allow_priority_updates, \* queue.allow_priority_updates
    store_fails,            \* a call of the task store or the job store may fail
    tasks,                  \* task store rows
    jobs,                   \* job store rows
    th,                     \* per thread: position in the called method and its locals
    calls,                  \* number of pushes and pops called so far (every item of
                            \* a list counts), at most MaxCalls
    outcome,                \* how the step just taken ended a call, an item of the
                            \* loop of push_items_to_queue included: "ok" (it
                            \* returned), the error raised, or "none" (nothing ended)
    listeners,              \* self.listeners: the registered listeners, in order
    threads,                \* self.threads: the registered workers, in order
    callback,               \* self.callback is set
    stop_event,             \* self.stop_event is set
    sp,                     \* position of the call of stop()
    events,                 \* what stop() has called so far, in order
    rk,                     \* one call of BoefjeRanker.rank: inputs and result
    rt,                     \* one call of BoefjeRankerTimeBased.rank
    oc,                     \* one call of Octopoes.get_objects_by_object_types
                            \* and the objects the service holds
    rs                      \* one call of rocky's schedule_task

vars == <<queue, maxsize, allow_replace, allow_updates, allow_priority_updates, store_fails, tasks, jobs, th, calls, outcome, listeners, threads, callback, sp, events, stop_event, rk, rt, oc, rs>>
config == <<maxsize, allow_replace, allow_updates, allow_priority_updates, store_fails>>
lifecycle == <<listeners, threads, callback, stop_event, sp, events>>
\* the queue, the store and the callers of the queue operations
core == <<queue, config, tasks, jobs, th, calls, outcome>>
\* the state the queue operations of the Scheduler never touch
rankers == <<rk, rt>>
\* the HTTP clients of the other services
clients == <<oc, rs>>
outside == <<lifecycle, rankers, clients>>

\* --------------------------------------------------------- PriorityQueue
qsize(q) == Len(q)

IndexOfHash(q, h) ==
    IF h # NoHash /\ \E i \in 1..Len(q) : q[i].hash = h
    THEN CHOOSE i \in 1..Len(q) : q[i].hash = h
    ELSE 0

RemoveAt(q, i) == SubSeq(q, 1, i - 1) \o SubSeq(q, i + 1, Len(q))

is_item_on_queue_by_hash(q, h) == IndexOfHash(q, h) # 0

\* structural validation: the id collides with an entry that is not the
\* entry this push replaces or updates
IsInvalid(q, item) ==
    \E i \in 1..Len(q) : q[i].id = item.id /\ i # IndexOfHash(q, item.hash)

\* full with the capacity check off by one
full_OffByOne(q, ms) == ms > 0 /\ qsize(q) > ms

full(q, ms) == ms > 0 /\ qsize(q) >= ms

\* the entry that results from updating the entry old with item: only the
\* priority (allow_priority_updates) and the payload (allow_updates) change
UpdatedEntry(old, item, upd, prio) ==
    [old EXCEPT !.priority = IF prio THEN item.priority ELSE @]

\* PQPush with a replace that leaves the replaced entry on the queue
PQPush_KeepsOld(q, item, ms, repl, upd, prio) ==
    LET i == IndexOfHash(q, item.hash) IN
    IF IsInvalid(q, item) THEN [err |-> InvalidPrioritizedItemError, q |-> q]
    ELSE IF i # 0 THEN
        IF repl THEN [err |-> "ok", q |-> Append(q, item)]
        ELSE IF upd \/ prio
             THEN [err |-> "ok", q |-> [q EXCEPT ![i] = UpdatedEntry(q[i], item, upd, prio)]]
        ELSE [err |-> NotAllowedError, q |-> q]
    ELSE IF full(q, ms) THEN [err |-> QueueFullError, q |-> q]
    ELSE [err |-> "ok", q |-> Append(q, item)]

\* PriorityQueue.push: [err |-> error or "ok", q |-> the queue afterwards]
PQPush(q, item, ms, repl, upd, prio) ==
    LET i == IndexOfHash(q, item.hash) IN
    IF IsInvalid(q, item) THEN [err |-> InvalidPrioritizedItemError, q |-> q]
    ELSE IF i # 0 THEN
        IF repl THEN [err |-> "ok", q |-> Append(RemoveAt(q, i), item)]
        ELSE IF upd \/ prio
             THEN [err |-> "ok", q |-> [q EXCEPT ![i] = UpdatedEntry(q[i], item, upd, prio)]]
        ELSE [err |-> NotAllowedError, q |-> q]
    ELSE IF full(q, ms) THEN [err |-> QueueFullError, q |-> q]
    ELSE [err |-> "ok", q |-> Append(q, item)]

Matches(e, f) == f = NoFilter \/ e.hash = f

\* index of the entry pop selects among q[1..n]: lowest priority value, the
\* earliest inserted among equals; 0 when no entry matches
RECURSIVE BestIndex(_, _, _)
BestIndex(q, f, n) ==
    IF n = 0 THEN 0
    ELSE LET b == BestIndex(q, f, n - 1) IN
         IF ~Matches(q[n], f) THEN b
         ELSE IF b = 0 THEN n
         ELSE IF q[n].priority < q[b].priority THEN n ELSE b

\* PriorityQueue.pop: [err, item, q]
PQPop(q, f) ==
    LET b == BestIndex(q, f, Len(q)) IN
    IF b = 0 THEN [err |-> QueueEmptyError, item |-> NoItem, q |-> q]
    ELSE [err |-> "ok", item |-> q[b], q |-> RemoveAt(q, b)]

\* ------------------------------------------------------- Task / Job store
TaskRows(i) == {r \in tasks : r.id = i}
get_task_by_id(i) == TaskRows(i)
TaskRow(i) == CHOOSE r \in tasks : r.id = i

JobRows(h) == {j \in jobs : j.hash = h}
\* get_job_by_hash returns the first match
get_job_by_hash(h) == CHOOSE j \in JobRows(h) : \A k \in JobRows(h) : j.id <= k.id
\* the store assigns a new Job the id after the highest id it holds
NextJobId == IF jobs = {} THEN 1
             ELSE 1 + (CHOOSE n \in {j.id : j \in jobs} : \A j \in jobs : j.id <= n)

\* update_task(task): overwrite the row with the task's id
update_task(task) == (tasks \ TaskRows(task.id)) \cup {task}
update_job(job) == {j \in jobs : j.id # job.id} \cup {job}

\* models.Task(id=p_item.id, p_item=p_item, status=QUEUED), job_id unset; of
\* the embedded p_item a row keeps the hash
NewTask(item) == [id |-> item.id, hash |-> item.hash, status |-> QUEUED, job_id |-> NoJob]
NoTask == [id |-> 0, hash |-> NoHash, status |-> "none", job_id |-> NoJob]

\* a Job left in the store by an earlier run, disabled since
StoredJob == [id |-> 2, hash |-> CHOOSE h \in Hashes : TRUE, enabled |-> FALSE]

\* ----------------------------------------------------------------- threads
Idle ==
    [pc |-> "idle", op |-> "none", item |-> NoItem, filters |-> NoFilter,
     left |-> 0, tries |-> 0, max_tries |-> 0, job_db |-> NoJob, task_db |-> NoTask]

\* stop() has not been called
Running == [pc |-> "running", i |-> 0, registered |-> 0]

\* rank has not been called
NoRank == [pc |-> "none", prior_tasks |-> 0, age |-> 0, grace_period |-> 0,
           result |-> 0, error |-> "", queries |-> 0]

\* BoefjeRankerTimeBased.rank has not been called
NoTimeRank == [pc |-> "none", today |-> 0, result |-> 0]

\* get_objects_by_object_types has not been called
NoObjects ==
    [pc |-> "none", scan_level |-> "", total |-> 0, changed |-> FALSE,
     count |-> 0, limit |-> 0, offset |-> 0, requests |-> <<>>, oois |-> <<>>]

\* schedule_task has not been called
NoSchedule ==
    [pc |-> "none", type |-> "", health |-> "", answer |-> 0, raised |-> "",
     posts |-> 0, messages |-> <<>>]

\* no call of a ranker or of a client of another service
InitServices ==
    /\ rk = NoRank
    /\ rt = NoTimeRank
    /\ oc = NoObjects
    /\ rs = NoSchedule

\* a scheduler without listeners, workers and callback, and no call of a
\* ranker or of a client
InitOutside ==
    /\ listeners = <<>>
    /\ threads = <<>>
    /\ callback = FALSE
    /\ stop_event = FALSE
    /\ sp = Running
    /\ events = <<>>
    /\ InitServices

Init ==
    /\ queue = <<>>
    /\ maxsize \in {0, MaxSize}
    /\ allow_replace \in BOOLEAN
    /\ allow_updates \in BOOLEAN
    /\ allow_priority_updates \in BOOLEAN
    /\ store_fails = TRUE
    /\ tasks = {}
    /\ jobs = {}
    /\ th = [t \in Threads |-> Idle]
    /\ calls = 0
    /\ outcome = "none"
    /\ InitOutside

\* the call of thread t returns (res = "ok") or raises res
Return(t, res) ==
    /\ th' = [th EXCEPT ![t] = Idle]
    /\ outcome' = res

\* thread t moves on inside its call, to the position and locals s
Goto(t, s) ==
    /\ th' = [th EXCEPT ![t] = s]
    /\ outcome' = "none"

\* EndPush for a loop of push_items_to_queue that does not catch the queue
\* errors: a rejected item ends the batch
EndPush_Aborts(t, res) ==
    IF th[t].op = "push_items_to_queue" /\ res = "ok"
    THEN IF th[t].left = 0
         THEN Return(t, "ok")
         ELSE \E item \in Items :
                 /\ th' = [th EXCEPT ![t] = [Idle EXCEPT
                               !.pc = "push", !.op = "push_items_to_queue",
                               !.item = item, !.left = th[t].left - 1]]
                 /\ outcome' = res
    ELSE Return(t, res)

\* push_item_to_queue(p_item) of thread t ends with res, "ok" or the error
\* raised.  Called from the loop of push_items_to_queue, the three queue
\* errors are skipped and the loop goes on with the next item of the list
\* (left counts the items after this one); every other caller gets res.
EndPush(t, res) ==
    IF th[t].op = "push_items_to_queue" /\ res \in PushErrors \cup {"ok"}
    THEN IF th[t].left = 0
         THEN Return(t, "ok")
         ELSE \E item \in Items :
                 /\ th' = [th EXCEPT ![t] = [Idle EXCEPT
                               !.pc = "push", !.op = "push_items_to_queue",
                               !.item = item, !.left = th[t].left - 1]]
                 /\ outcome' = res
    ELSE Return(t, res)

\* a caller invokes push_item_to_queue(item)
call_push_item_to_queue(t, item) ==
    /\ th[t].pc = "idle"
    /\ calls < MaxCalls
    /\ calls' = calls + 1
    /\ Goto(t, [Idle EXCEPT !.pc = "push", !.op = "push_item_to_queue", !.item = item])
    /\ UNCHANGED <<queue, config, outside, tasks, jobs>>

\* push_item_to_queue whose NotAllowedError handler logs and does not re-raise
push_item_to_queue_SwallowsNotAllowed(t) ==
    /\ th[t].pc = "push"
    /\ LET r == PQPush(queue, th[t].item, maxsize, allow_replace, allow_updates,
                       allow_priority_updates) IN
       /\ queue' = r.q
       /\ IF r.err = "ok"
          THEN Goto(t, [th[t] EXCEPT !.pc = "post_push"])
          ELSE IF r.err = NotAllowedError
          THEN EndPush(t, "ok")
          ELSE EndPush(t, r.err)
    /\ UNCHANGED <<config, outside, calls, tasks, jobs>>

\* push_item_to_queue that calls post_push whether or not the push succeeded
push_item_to_queue_AlwaysPostPush(t) ==
    /\ th[t].pc = "push"
    /\ LET r == PQPush(queue, th[t].item, maxsize, allow_replace, allow_updates,
                       allow_priority_updates) IN
       /\ queue' = r.q
       /\ Goto(t, [th[t] EXCEPT !.pc = "post_push"])
    /\ UNCHANGED <<config, outside, calls, tasks, jobs>>

\* push_item_to_queue: self.queue.push(p_item), the errors are re-raised
push_item_to_queue(t) ==
    /\ th[t].pc = "push"
    /\ LET r == PQPush(queue, th[t].item, maxsize, allow_replace, allow_updates,
                       allow_priority_updates) IN
       /\ queue' = r.q
       /\ IF r.err = "ok"
          THEN Goto(t, [th[t] EXCEPT !.pc = "post_push"])
          ELSE EndPush(t, r.err)
    /\ UNCHANGED <<config, outside, calls, tasks, jobs>>

\* post_push without the check of p_item.hash
post_push_NoHashCheck(t) ==
    /\ th[t].pc = "post_push"
    /\ \/ store_fails /\ EndPush(t, StoreError)
       \/ Goto(t, [th[t] EXCEPT !.pc = IF get_task_by_id(th[t].item.id) # {}
                                       THEN "pp_update_task"
                                       ELSE "pp_create_task"])
    /\ UNCHANGED <<queue, config, outside, calls, tasks, jobs>>

\* post_push: the hash check and task_store.get_task_by_id
post_push(t) ==
    /\ th[t].pc = "post_push"
    /\ \/ /\ th[t].item.hash = NoHash
          /\ EndPush(t, "ok")
       \/ /\ th[t].item.hash # NoHash
          /\ \/ store_fails /\ EndPush(t, StoreError)
             \/ Goto(t, [th[t] EXCEPT !.pc = IF get_task_by_id(th[t].item.id) # {}
                                             THEN "pp_update_task"
                                             ELSE "pp_create_task"])
    /\ UNCHANGED <<queue, config, outside, calls, tasks, jobs>>

\* post_push that does not return after update_task(task) and goes on to
\* the Job
post_push_update_task_FallsThrough(t) ==
    /\ th[t].pc = "pp_update_task"
    /\ \/ /\ tasks' = update_task(NewTask(th[t].item))
          /\ Goto(t, [th[t] EXCEPT !.pc = "pp_get_job", !.task_db = NewTask(th[t].item)])
       \/ /\ store_fails
          /\ tasks' = tasks
          /\ EndPush(t, StoreError)
    /\ UNCHANGED <<queue, config, outside, calls, jobs>>

\* post_push: a Task with this id exists: update_task(task); return
post_push_update_task(t) ==
    /\ th[t].pc = "pp_update_task"
    /\ \/ /\ tasks' = update_task(NewTask(th[t].item))
          /\ EndPush(t, "ok")
       \/ /\ store_fails
          /\ tasks' = tasks
          /\ EndPush(t, StoreError)
    /\ UNCHANGED <<queue, config, outside, calls, jobs>>

\* post_push: task_db = create_task(task); the store rejects a second row
\* with the same id
post_push_create_task(t) ==
    /\ th[t].pc = "pp_create_task"
    /\ \/ /\ get_task_by_id(th[t].item.id) = {}
          /\ tasks' = tasks \cup {NewTask(th[t].item)}
          /\ Goto(t, [th[t] EXCEPT !.pc = "pp_get_job", !.task_db = NewTask(th[t].item)])
       \/ /\ (store_fails \/ get_task_by_id(th[t].item.id) # {})
          /\ tasks' = tasks
          /\ EndPush(t, "ok")
       \/ /\ (store_fails \/ get_task_by_id(th[t].item.id) # {})
          /\ tasks' = tasks
          /\ EndPush(t, StoreError)
    /\ UNCHANGED <<queue, config, outside, calls, jobs>>

\* post_push: job_db = job_store.get_job_by_hash(p_item.hash)
post_push_get_job(t) ==
    /\ th[t].pc = "pp_get_job"
    /\ \/ store_fails /\ EndPush(t, StoreError)
       \/ /\ JobRows(th[t].item.hash) = {}
          /\ Goto(t, [th[t] EXCEPT !.pc = "pp_create_job"])
       \/ /\ JobRows(th[t].item.hash) # {}
          /\ Goto(t, [th[t] EXCEPT !.pc = "pp_update_job",
                                   !.job_db = get_job_by_hash(th[t].item.hash).id])
    /\ UNCHANGED <<queue, config, outside, calls, tasks, jobs>>

\* post_push whose create_job is outside the try block: the failure propagates
post_push_create_job_NotCaught(t) ==
    /\ th[t].pc = "pp_create_job"
    /\ \/ /\ jobs' = jobs \cup {[id |-> NextJobId, hash |-> th[t].item.hash, enabled |-> TRUE]}
          /\ Goto(t, [th[t] EXCEPT !.pc = "pp_update_job", !.job_db = NextJobId])
       \/ /\ store_fails
          /\ jobs' = jobs
          /\ EndPush(t, StoreError)
    /\ UNCHANGED <<queue, config, outside, calls, tasks>>

\* post_push: job_db = create_job(Job(hash, enabled=True)), failure is caught
post_push_create_job(t) ==
    /\ th[t].pc = "pp_create_job"
    /\ \/ /\ jobs' = jobs \cup {[id |-> NextJobId, hash |-> th[t].item.hash, enabled |-> TRUE]}
          /\ Goto(t, [th[t] EXCEPT !.pc = "pp_update_job", !.job_db = NextJobId])
       \/ /\ store_fails
          /\ jobs' = jobs
          /\ EndPush(t, "ok")
    /\ UNCHANGED <<queue, config, outside, calls, tasks>>

\* post_push that persists job_db as it was read, without enabling it
post_push_update_job_KeepsDisabled(t) ==
    /\ th[t].pc = "pp_update_job"
    /\ \/ /\ jobs' = jobs
          /\ Goto(t, [th[t] EXCEPT !.pc = "pp_link"])
       \/ /\ store_fails
          /\ jobs' = jobs
          /\ EndPush(t, "ok")
    /\ UNCHANGED <<queue, config, outside, calls, tasks>>

\* post_push: job_db.enabled = True; update_job(job_db), failure is caught
post_push_update_job(t) ==
    /\ th[t].pc = "pp_update_job"
    /\ \/ /\ jobs' = update_job([id |-> th[t].job_db, hash |-> th[t].item.hash, enabled |-> TRUE])
          /\ Goto(t, [th[t] EXCEPT !.pc = "pp_link"])
       \/ /\ store_fails
          /\ jobs' = jobs
          /\ EndPush(t, "ok")
    /\ UNCHANGED <<queue, config, outside, calls, tasks>>

\* post_push: task_db.job_id = job_db.id; update_task(task_db), failure is caught
post_push_link(t) ==
    /\ th[t].pc = "pp_link"
    /\ \/ tasks' = update_task([th[t].task_db EXCEPT !.job_id = th[t].job_db])
       \/ store_fails /\ tasks' = tasks
    /\ EndPush(t, "ok")
    /\ UNCHANGED <<queue, config, outside, calls, jobs>>

\* push_items_to_queue(p_items) with n items: the loop takes the first item
push_items_to_queue(t, n) ==
    /\ th[t].pc = "idle"
    /\ calls + n <= MaxCalls
    /\ calls' = calls + n
    /\ IF n = 0
       THEN Return(t, "ok")
       ELSE \E item \in Items :
               Goto(t, [Idle EXCEPT !.pc = "push", !.op = "push_items_to_queue",
                                    !.item = item, !.left = n - 1])
    /\ UNCHANGED <<queue, config, outside, tasks, jobs>>

is_space_on_queue == ~((maxsize - qsize(queue)) <= 0 /\ maxsize # 0)

\* a caller invokes push_item_to_queue_with_timeout(item, max_tries)
call_push_item_to_queue_with_timeout(t, item, mt) ==
    /\ th[t].pc = "idle"
    /\ calls < MaxCalls
    /\ calls' = calls + 1
    /\ Goto(t, [Idle EXCEPT !.pc = "wt_check", !.op = "push_item_to_queue_with_timeout",
                            !.item = item, !.max_tries = mt])
    /\ UNCHANGED <<queue, config, outside, tasks, jobs>>

\* push_item_to_queue_with_timeout whose check after the loop reads
\* tries > max_tries
push_item_to_queue_with_timeout_OffByOne(t) ==
    /\ th[t].pc = "wt_check"
    /\ LET tries == th[t].tries
           mt == th[t].max_tries IN
       IF ~is_space_on_queue /\ (tries < mt \/ mt = -1)
       THEN Goto(t, [th[t] EXCEPT !.tries = IF mt = -1 /\ tries >= MaxTries
                                            THEN tries ELSE tries + 1])
       ELSE IF tries > mt /\ mt # -1
       THEN Return(t, QueueFullError)
       ELSE Goto(t, [th[t] EXCEPT !.pc = "push"])
    /\ UNCHANGED <<queue, config, outside, calls, tasks, jobs>>

\* push_item_to_queue_with_timeout: one evaluation of the while condition,
\* followed by sleep and tries += 1, or by the check after the loop.  With
\* max_tries = -1 the value of tries is never used, the counter saturates.
push_item_to_queue_with_timeout(t) ==
    /\ th[t].pc = "wt_check"
    /\ LET tries == th[t].tries
           mt == th[t].max_tries IN
       IF ~is_space_on_queue /\ (tries < mt \/ mt = -1)
       THEN Goto(t, [th[t] EXCEPT !.tries = IF mt = -1 /\ tries >= MaxTries
                                            THEN tries ELSE tries + 1])
       ELSE IF tries >= mt /\ mt # -1
       THEN Return(t, QueueFullError)
       ELSE Goto(t, [th[t] EXCEPT !.pc = "push"])
    /\ UNCHANGED <<queue, config, outside, calls, tasks, jobs>>

\* pop_item_from_queue that does not pass its filters on: self.queue.pop()
pop_item_from_queue_NoFilters(t, f) ==
    /\ th[t].pc = "idle"
    /\ calls < MaxCalls
    /\ calls' = calls + 1
    /\ LET r == PQPop(queue, NoFilter) IN
       /\ queue' = r.q
       /\ IF r.err # "ok"
          THEN Return(t, r.err)
          ELSE Goto(t, [Idle EXCEPT !.pc = "post_pop", !.op = "pop_item_from_queue",
                                    !.item = r.item, !.filters = f])
    /\ UNCHANGED <<config, outside, tasks, jobs>>

\* pop_item_from_queue(filters): self.queue.pop(filters)
pop_item_from_queue(t, f) ==
    /\ th[t].pc = "idle"
    /\ calls < MaxCalls
    /\ calls' = calls + 1
    /\ LET r == PQPop(queue, f) IN
       /\ queue' = r.q
       /\ IF r.err # "ok"
          THEN Return(t, r.err)
          ELSE Goto(t, [Idle EXCEPT !.pc = "post_pop", !.op = "pop_item_from_queue",
                                    !.item = r.item, !.filters = f])
    /\ UNCHANGED <<config, outside, tasks, jobs>>

\* post_pop without the check of task is None: task.status fails on None
post_pop_NoNoneCheck(t) ==
    /\ th[t].pc = "post_pop"
    /\ \/ store_fails /\ Return(t, StoreError)
       \/ /\ get_task_by_id(th[t].item.id) = {}
          /\ Return(t, "AttributeError")
       \/ /\ get_task_by_id(th[t].item.id) # {}
          /\ Goto(t, [th[t] EXCEPT !.pc = "po_update_task",
                                   !.task_db = TaskRow(th[t].item.id)])
    /\ UNCHANGED <<queue, config, outside, calls, tasks, jobs>>

\* post_pop: task = get_task_by_id(p_item.id)
post_pop(t) ==
    /\ th[t].pc = "post_pop"
    /\ \/ store_fails /\ Return(t, StoreError)
       \/ /\ get_task_by_id(th[t].item.id) = {}
          /\ Return(t, "ok")
       \/ /\ get_task_by_id(th[t].item.id) # {}
          /\ Goto(t, [th[t] EXCEPT !.pc = "po_update_task",
                                   !.task_db = TaskRow(th[t].item.id)])
    /\ UNCHANGED <<queue, config, outside, calls, tasks, jobs>>

\* post_pop that persists the status its docstring names, RUNNING
post_pop_update_task_Running(t) ==
    /\ th[t].pc = "po_update_task"
    /\ \/ /\ tasks' = update_task([th[t].task_db EXCEPT !.status = "RUNNING"])
          /\ Return(t, "ok")
       \/ /\ store_fails
          /\ tasks' = tasks
          /\ Return(t, StoreError)
    /\ UNCHANGED <<queue, config, outside, calls, jobs>>

\* post_pop: task.status = DISPATCHED; update_task(task); return p_item
post_pop_update_task(t) ==
    /\ th[t].pc = "po_update_task"
    /\ \/ /\ tasks' = update_task([th[t].task_db EXCEPT !.status = DISPATCHED])
          /\ Return(t, "ok")
       \/ /\ store_fails
          /\ tasks' = tasks
          /\ Return(t, StoreError)
    /\ UNCHANGED <<queue, config, outside, calls, jobs>>

\* --------------------------------------------------------------- lifecycle
scheduler_id == "scheduler_id"
JoinTimeout == 5

\* one call made by stop(): lst.stop() of listener k, t.join(wait) of worker k,
\* or callback(id)
Event(ev, k, wait, id) == [ev |-> ev, k |-> k, wait |-> wait, id |-> id]

\* is_alive()
is_alive == ~stop_event

\* a ThreadRunner that has been started: its run is about to check the stop
\* signal; raised tells whether the last call of its target raised
Worker(loop) == [alive |-> TRUE, loop |-> loop, pc |-> "check", raised |-> FALSE]

\* run_in_thread: a ThreadRunner is started and appended to self.threads
run_in_thread(loop) ==
    /\ Len(threads) < MaxWorkers
    /\ threads' = Append(threads, Worker(loop))
    /\ UNCHANGED <<core, listeners, callback, sp, events, stop_event, rankers, clients>>

\* worker k finds the stop signal not set and calls its target
worker_calls_target(k) ==
    /\ k \in 1..Len(threads)
    /\ threads[k].alive
    /\ threads[k].pc = "check"
    /\ ~stop_event
    /\ threads' = [threads EXCEPT ![k].pc = "target"]
    /\ UNCHANGED <<core, listeners, callback, sp, events, stop_event, rankers, clients>>

\* a worker whose run ends with the exception its target raises
worker_target_ends_Dies(k, exc) ==
    /\ k \in 1..Len(threads)
    /\ threads[k].pc = "target"
    /\ threads' = [threads EXCEPT
                      ![k].raised = exc,
                      ![k].pc = IF threads[k].loop /\ ~exc THEN "check" ELSE "done",
                      ![k].alive = threads[k].loop /\ ~exc]
    /\ UNCHANGED <<core, listeners, callback, sp, events, stop_event, rankers, clients>>

\* the target of worker k returns or raises (exc): the exception is caught
\* and logged.  A looping worker waits its interval and checks the stop
\* signal again, a worker started with loop=False ends
worker_target_ends(k, exc) ==
    /\ k \in 1..Len(threads)
    /\ threads[k].pc = "target"
    /\ threads' = [threads EXCEPT
                      ![k].raised = exc,
                      ![k].pc = IF threads[k].loop THEN "check" ELSE "done",
                      ![k].alive = threads[k].loop]
    /\ UNCHANGED <<core, listeners, callback, sp, events, stop_event, rankers, clients>>

\* worker k finds the stop signal set: its run ends
worker_exits(k) ==
    /\ k \in 1..Len(threads)
    /\ threads[k].alive
    /\ threads[k].pc = "check"
    /\ stop_event
    /\ threads' = [threads EXCEPT ![k].alive = FALSE, ![k].pc = "done"]
    /\ UNCHANGED <<core, listeners, callback, sp, events, stop_event, rankers, clients>>

\* the shared stop signal is set by the owner of the scheduler or by a
\* ThreadRunner; stop() itself does not set it
stop_event_set ==
    /\ ~stop_event
    /\ stop_event' = TRUE
    /\ UNCHANGED <<core, listeners, threads, callback, sp, events, rankers, clients>>

\* stop() that goes straight to joining the workers
call_stop_SkipsListeners ==
    /\ sp.pc = "running"
    /\ sp' = [pc |-> "threads", i |-> 1, registered |-> Len(threads)]
    /\ UNCHANGED <<core, listeners, threads, callback, events, stop_event, rankers, clients>>

\* a caller invokes stop(); registered is the number of workers at the call
call_stop ==
    /\ sp.pc = "running"
    /\ sp' = [pc |-> "listeners", i |-> 1, registered |-> Len(threads)]
    /\ UNCHANGED <<core, listeners, threads, callback, events, stop_event, rankers, clients>>

\* stop: for lst in self.listeners.values(): lst.stop()
stop_listeners ==
    /\ sp.pc = "listeners"
    /\ IF sp.i <= Len(listeners)
       THEN /\ listeners' = [listeners EXCEPT ![sp.i] = "stopped"]
            /\ events' = Append(events, Event("lst.stop", sp.i, 0, ""))
            /\ sp' = [sp EXCEPT !.i = @ + 1]
       ELSE /\ sp' = [sp EXCEPT !.pc = "threads", !.i = 1]
            /\ UNCHANGED <<listeners, events>>
    /\ UNCHANGED <<core, threads, callback, stop_event, rankers, clients>>

\* stop: for t in self.threads: t.join(5); the wait ends when the worker has
\* ended or after the timeout, the worker may still be alive
stop_join ==
    /\ sp.pc = "threads"
    /\ IF sp.i <= Len(threads)
       THEN /\ events' = Append(events, Event("join", sp.i, JoinTimeout, ""))
            /\ sp' = [sp EXCEPT !.i = @ + 1]
       ELSE /\ sp' = [sp EXCEPT !.pc = "callback"]
            /\ UNCHANGED events
    /\ UNCHANGED <<core, listeners, threads, callback, stop_event, rankers, clients>>

\* stop: if self.callback: self.callback(self.scheduler_id)
stop_callback ==
    /\ sp.pc = "callback"
    /\ IF callback
       THEN events' = Append(events, Event("callback", 0, 0, scheduler_id))
       ELSE UNCHANGED events
    /\ sp' = [sp EXCEPT !.pc = "stopped"]
    /\ UNCHANGED <<core, listeners, threads, callback, stop_event, rankers, clients>>

\* ------------------------------------------------------------------ ranker
MAX_PRIORITY == 1000
MAX_DAYS == 7

\* get_tasks_by_hash returns None, or the list of the prior executions, the
\* most recent first; of the list the model keeps the length
None == -1

\* timedelta.seconds of a timedelta of d seconds: a timedelta is kept as days,
\* 0 <= seconds < 86400 and microseconds, the days may be negative
seconds(d) == d % (60 * 60 * 24)

\* rank that tests prior_tasks for None only: prior_tasks[0] of an empty list
\* fails
rank_ChecksNoneOnly(prior_tasks, age, grace_period) ==
    LET max_priority == MAX_PRIORITY
        max_days_in_seconds == MAX_DAYS * (60 * 60 * 24)
        time_since_grace_period == seconds(age - grace_period)
    IN  IF prior_tasks = None
        THEN [result |-> 2, error |-> "", queries |-> 0]
        ELSE IF prior_tasks = 0
        THEN [result |-> 0, error |-> "IndexError", queries |-> 0]
        ELSE IF time_since_grace_period < 0
        THEN [result |-> -1, error |-> "", queries |-> 0]
        ELSE IF time_since_grace_period >= max_days_in_seconds
        THEN [result |-> 3, error |-> "", queries |-> 0]
        ELSE [result |-> 3 + ((max_priority - 3)
                              * (max_days_in_seconds - time_since_grace_period))
                             \div max_days_in_seconds,
              error |-> "",
              queries |-> 2 * prior_tasks]

\* rank that gives a task without history the priority of a forced task
rank_NewTasksFirst(prior_tasks, age, grace_period) ==
    LET max_priority == MAX_PRIORITY
        max_days_in_seconds == MAX_DAYS * (60 * 60 * 24)
        time_since_grace_period == seconds(age - grace_period)
    IN  IF prior_tasks = None \/ prior_tasks = 0
        THEN [result |-> 1, error |-> "", queries |-> 0]
        ELSE IF time_since_grace_period < 0
        THEN [result |-> -1, error |-> "", queries |-> 0]
        ELSE IF time_since_grace_period >= max_days_in_seconds
        THEN [result |-> 3, error |-> "", queries |-> 0]
        ELSE [result |-> 3 + ((max_priority - 3)
                              * (max_days_in_seconds - time_since_grace_period))
                             \div max_days_in_seconds,
              error |-> "",
              queries |-> 2 * prior_tasks]

\* BoefjeRanker.rank(task), where get_tasks_by_hash(task.hash) returns
\* prior_tasks, age is now - prior_tasks[0].modified_at in seconds and
\* grace_period is config.pq_populate_grace_period: the value returned and the
\* number of queries made to the object graph (get_children_by_ooi and
\* get_findings_by_ooi for every prior task).
\* int(3 + (max_priority - 3) * (1 - t / max_days_in_seconds)) is computed
\* exactly: the value is positive and int() rounds it down
rank(prior_tasks, age, grace_period) ==
    LET max_priority == MAX_PRIORITY
        max_days_in_seconds == MAX_DAYS * (60 * 60 * 24)
        time_since_grace_period == seconds(age - grace_period)
    IN  IF prior_tasks = None \/ prior_tasks = 0
        THEN [result |-> 2, error |-> "", queries |-> 0]
        ELSE IF time_since_grace_period < 0
        THEN [result |-> -1, error |-> "", queries |-> 0]
        ELSE IF time_since_grace_period >= max_days_in_seconds
        THEN [result |-> 3, error |-> "", queries |-> 0]
        ELSE [result |-> 3 + ((max_priority - 3)
                              * (max_days_in_seconds - time_since_grace_period))
                             \div max_days_in_seconds,
              error |-> "",
              queries |-> 2 * prior_tasks]

\* the ranker is called for a task and returns
call_rank ==
    /\ rk.pc = "called"
    /\ LET r == rank(rk.prior_tasks, rk.age, rk.grace_period) IN
       rk' = [rk EXCEPT !.pc = "returned", !.result = r.result,
                        !.error = r.error, !.queries = r.queries]
    /\ UNCHANGED <<core, lifecycle, rt, clients>>

\* random.randint(a, b) returns any integer of a..b: the model draws the
\* ends, their neighbours and the middle
randint(a, b) == {n \in {a, a + 1, a + (b - a) \div 2, b - 1, b} : a <= n /\ n <= b}

\* BoefjeRankerTimeBased.rank(obj), where today is datetime.today() as a Unix
\* timestamp in whole seconds: the values the call can return
rank_time_based(today) ==
    LET minimum == today + 1 * (60 * 60 * 24)
        maximum == minimum + 7 * (60 * 60 * 24)
    IN  randint(minimum, maximum)

\* the time-based ranker is called for a task and returns
call_rank_time_based ==
    /\ rt.pc = "called"
    /\ \E r \in rank_time_based(rt.today) :
          rt' = [rt EXCEPT !.pc = "returned", !.result = r]
    /\ UNCHANGED <<core, lifecycle, rk, clients>>

\* the clocks at which the time-based ranker is called: the first seconds of
\* Unix time and a recent date
Todays == {0, 1, 1700000000}

\* the times since the last execution given to rank, in seconds: around
\* every half day up to MaxHalfDays
Ages == {a \in {k * 43200 + d : k \in 0..MaxHalfDays, d \in {-1, 0, 1}} : a >= 0}

\* the grace periods configured, in seconds
GracePeriods == {0, 60, 86400}

\* ------------------------------------------------------------------ octopoes
\* limit = 1000
PageLimit == 1000

\* the scan_level argument: None (the set {None}) or a list of levels
ScanLevel(scan_level) == IF scan_level = {None} THEN {} ELSE scan_level

\* the query parameters of a request
Params(scan_level, offset, limit) ==
    [scan_level |-> ScanLevel(scan_level), offset |-> offset, limit |-> limit]

\* GET /{org}/objects answered by a service that holds the objects 1..total
\* in a fixed order: the count of all objects and the page asked for
objects_response(total, offset, limit) ==
    LET n == IF total - offset < limit THEN total - offset ELSE limit
    IN  [count |-> total,
         items |-> [i \in 1..(IF n < 0 THEN 0 ELSE n) |-> offset + i]]

\* get_objects_by_object_types that leaves the limit of the first request in
\* the parameters
get_objects_by_object_types_KeepsLimit ==
    /\ oc.pc = "called"
    /\ LET response == objects_response(oc.total, 0, 1) IN
       oc' = [oc EXCEPT !.pc = "pages",
                        !.requests = Append(@, Params(oc.scan_level, 0, 1)),
                        !.count = response.count,
                        !.limit = 1,
                        !.offset = 0]
    /\ UNCHANGED <<core, lifecycle, rankers, rs>>

\* get_objects_by_object_types: the request with offset 0 and limit 1 that
\* reads count, and the limit of the pages
get_objects_by_object_types ==
    /\ oc.pc = "called"
    /\ LET response == objects_response(oc.total, 0, 1) IN
       oc' = [oc EXCEPT !.pc = "pages",
                        !.requests = Append(@, Params(oc.scan_level, 0, 1)),
                        !.count = response.count,
                        !.limit = PageLimit,
                        !.offset = 0]
    /\ UNCHANGED <<core, lifecycle, rankers, rs>>

\* one pass of the loop 'for offset in range(0, count, limit)': the request
\* of a page, whose items are appended to oois
get_objects_page ==
    /\ oc.pc = "pages"
    /\ oc.offset < oc.count
    /\ LET response == objects_response(oc.total, oc.offset, oc.limit) IN
       oc' = [oc EXCEPT !.requests = Append(@, Params(oc.scan_level, oc.offset, oc.limit)),
                        !.oois = @ \o response.items,
                        !.offset = @ + PageLimit]
    /\ UNCHANGED <<core, lifecycle, rankers, rs>>

\* the loop has ended: return oois
get_objects_return ==
    /\ oc.pc = "pages"
    /\ oc.offset >= oc.count
    /\ oc' = [oc EXCEPT !.pc = "returned"]
    /\ UNCHANGED <<core, lifecycle, rankers, rs>>

\* the service gains or loses its last object during the call, once
objects_change ==
    /\ oc.pc \in {"called", "pages"}
    /\ ~oc.changed
    /\ \E n \in {oc.total - 1, oc.total + 1} :
          /\ n >= 0
          /\ oc' = [oc EXCEPT !.total = n, !.changed = TRUE]
    /\ UNCHANGED <<core, lifecycle, rankers, rs>>

\* the numbers of objects the service holds at the call: around every
\* multiple of the page size up to MaxPages pages
Totals == {n \in {p * PageLimit + d : p \in 0..MaxPages, d \in {-1, 0, 1}} : n >= 0}

\* the scan_level arguments
ScanLevels == {{None}, {}, {0, 1}}

\* --------------------------------------------------------------------- rocky
TOO_MANY_REQUESTS == 429
BAD_REQUEST == 400
CONFLICT == 409

\* no answer came: requests raises ConnectionError
NoAnswer == 0

\* the message attribute of the error classes
message(error) ==
    CASE error = "SchedulerError" -> "Connectivity issues with Mula."
      [] error = "TooManyRequestsError" -> "Task queue is full, please try again later."
      [] error = "BadRequestError" -> "Task is invalid."
      [] error = "ConflictError" -> "Task already queued."

\* res.raise_for_status() raises HTTPError
raise_for_status(code) == code >= 400

\* plugin_name and input_ooi of the task, by task.data.type
plugin_name(type) == IF type = "boefje" THEN "boefje.name" ELSE "normalizer.id"
input_ooi(type) == IF type = "boefje" THEN "input_ooi" ELSE "raw_data.boefje_meta.input_ooi"

\* a user message: its level, the parts of its text and the values formatted
\* into it
Message(level, text, type) ==
    [level |-> level, text |-> text,
     args |-> <<type, plugin_name(type), input_ooi(type)>>]

\* get_scheduler_client(): the client is made and its health is asked; a
\* ConnectionError becomes SchedulerError, an HTTPError of raise_for_status
\* is not caught
get_scheduler_client ==
    /\ rs.pc = "called"
    /\ rs' = CASE rs.health = "ok" -> [rs EXCEPT !.pc = "push"]
               [] rs.health = "ConnectionError" ->
                      [rs EXCEPT !.pc = "report", !.raised = "SchedulerError"]
               [] rs.health = "HTTPError" ->
                      [rs EXCEPT !.pc = "raised", !.raised = "HTTPError"]
    /\ UNCHANGED <<core, lifecycle, rankers, oc>>

\* push_task that has no branch for CONFLICT
push_task_NoConflict ==
    /\ rs.pc = "push"
    /\ LET code == rs.answer IN
       rs' = IF code = NoAnswer
             THEN [rs EXCEPT !.pc = "raised", !.raised = "ConnectionError", !.posts = @ + 1]
             ELSE [rs EXCEPT !.pc = "report", !.posts = @ + 1,
                      !.raised = IF ~raise_for_status(code) THEN ""
                                 ELSE IF code = TOO_MANY_REQUESTS THEN "TooManyRequestsError"
                                 ELSE IF code = BAD_REQUEST THEN "BadRequestError"
                                 ELSE "SchedulerError"]
    /\ UNCHANGED <<core, lifecycle, rankers, oc>>

\* push_task: the POST to /queues/{queue_name}/push, the error raised for the
\* status of the answer; a ConnectionError is not caught
push_task ==
    /\ rs.pc = "push"
    /\ LET code == rs.answer IN
       rs' = IF code = NoAnswer
             THEN [rs EXCEPT !.pc = "raised", !.raised = "ConnectionError", !.posts = @ + 1]
             ELSE [rs EXCEPT !.pc = "report", !.posts = @ + 1,
                      !.raised = IF ~raise_for_status(code) THEN ""
                                 ELSE IF code = TOO_MANY_REQUESTS THEN "TooManyRequestsError"
                                 ELSE IF code = BAD_REQUEST THEN "BadRequestError"
                                 ELSE IF code = CONFLICT THEN "ConflictError"
                                 ELSE "SchedulerError"]
    /\ UNCHANGED <<core, lifecycle, rankers, oc>>

\* schedule_task: the except and else branches after the push
schedule_task ==
    /\ rs.pc = "report"
    /\ LET m == IF rs.raised \in {"BadRequestError", "TooManyRequestsError", "ConflictError"}
                THEN Message("error",
                             <<message(rs.raised),
                               " Scheduling {} {} with input object {} failed.">>,
                             rs.type)
                ELSE IF rs.raised = "SchedulerError"
                THEN [level |-> "error", text |-> <<message(rs.raised)>>, args |-> <<>>]
                ELSE Message("success",
                             <<"Task '{} {} with input object {}' is scheduled and will soon be started in the background. ">>,
                             rs.type)
       IN rs' = [rs EXCEPT !.pc = "returned", !.messages = Append(@, m)]
    /\ UNCHANGED <<core, lifecycle, rankers, oc>>

\* the answers of the scheduler API to the push: none, or an HTTP status
Answers == {NoAnswer, 200, 201, BAD_REQUEST, 404, CONFLICT, TOO_MANY_REQUESTS, 500}

\* the outcomes of the health request
Healths == {"ok", "ConnectionError", "HTTPError"}

\* task.data.type
TaskTypes == {"boefje", "normalizer"}

\* ------------------------------------------------------------------ claims
\* thread t takes a step of its own
Moves(t) == th'[t] # th[t]

\* thread t executes self.queue.push(p_item)
PushStep(t) == th[t].pc = "push" /\ Moves(t)

\* thread t executes self.queue.pop(filters) and gets an item
PopStep(t) == th[t].pc = "idle" /\ th'[t].pc = "post_pop"

EntriesWithHash(q, h) == {i \in 1..Len(q) : q[i].hash = h}

\* the item collides with no other entry's id
IsValid(q, item) == ~IsInvalid(q, item)

\* C1: with deduplication the queue never holds two entries with the same
\* hash, and when a push of an item with a hash succeeds, whatever other
\* threads pushed meanwhile, exactly one entry with that hash is on the queue
C1_OneEntryPerHash ==
    /\ [](\A h \in Hashes : Cardinality(EntriesWithHash(queue, h)) <= 1)
    /\ [][\A t \in Threads :
            (PushStep(t) /\ th'[t].pc = "post_push" /\ th[t].item.hash # NoHash)
            => Cardinality(EntriesWithHash(queue', th[t].item.hash)) = 1]_vars

\* two threads have pushed items with different ids and the same hash with
\* replace enabled, both pushes succeeded, one entry is on the queue
C1_Witness ==
    /\ allow_replace
    /\ \E t, u \in Threads :
          /\ t # u
          /\ th[t].pc = "post_push" /\ th[u].pc = "post_push"
          /\ th[t].item.hash # NoHash
          /\ th[t].item.hash = th[u].item.hash
          /\ th[t].item.id # th[u].item.id
          /\ Cardinality(EntriesWithHash(queue, th[t].item.hash)) = 1

\* C2: pop removes and returns an entry that matches the filters, no matching
\* entry has a lower priority value, and no matching entry with the same
\* priority value was inserted before it
C2_PopLowestEarliest ==
    [][\A t \in Threads :
        PopStep(t) =>
            \E i \in 1..Len(queue) :
                /\ queue[i] = th'[t].item
                /\ Matches(queue[i], th'[t].filters)
                /\ queue' = RemoveAt(queue, i)
                /\ \A j \in 1..Len(queue) :
                      Matches(queue[j], th'[t].filters) =>
                          \/ queue[j].priority > queue[i].priority
                          \/ queue[j].priority = queue[i].priority /\ j >= i]_vars

\* a filtered pop has returned an entry while an entry with a lower priority
\* value that does not match the filter stays on the queue
C2_Witness ==
    \E t \in Threads :
        /\ th[t].pc = "post_pop"
        /\ th[t].filters # NoFilter
        /\ \E i \in 1..Len(queue) :
              /\ ~Matches(queue[i], th[t].filters)
              /\ queue[i].priority < th[t].item.priority

\* C3: on a bounded queue the push of a valid item with a new hash at
\* qsize = maxsize fails with QueueFullError and leaves the queue as it was,
\* below maxsize it succeeds, a replace or update of a queued hash never
\* fails with QueueFullError, and qsize never exceeds maxsize
C3_QueueFull ==
    /\ [](maxsize > 0 => qsize(queue) <= maxsize)
    /\ [][\A t \in Threads :
            (PushStep(t) /\ maxsize > 0 /\ IsValid(queue, th[t].item)) =>
                LET item == th[t].item
                    new == ~is_item_on_queue_by_hash(queue, item.hash) IN
                /\ (new /\ qsize(queue) = maxsize)
                      => th'[t].pc = "idle" /\ outcome' = QueueFullError /\ queue' = queue
                /\ (new /\ qsize(queue) < maxsize)
                      => th'[t].pc = "post_push" /\ queue' = Append(queue, item)
                /\ ~new => outcome' # QueueFullError]_vars

\* a push has just failed with QueueFullError on a queue at its maxsize
C3_Witness ==
    /\ maxsize > 0
    /\ qsize(queue) = maxsize
    /\ outcome = QueueFullError

\* C4: with replace and updates disabled the push of an item whose hash is on
\* the queue fails with NotAllowedError and the queue is as before
C4_NotAllowed ==
    [][\A t \in Threads :
        (/\ PushStep(t)
         /\ ~allow_replace /\ ~allow_updates /\ ~allow_priority_updates
         /\ IsValid(queue, th[t].item)
         /\ is_item_on_queue_by_hash(queue, th[t].item.hash))
        => /\ th'[t].pc = "idle"
           /\ outcome' = NotAllowedError
           /\ queue' = queue
           /\ qsize(queue') = qsize(queue)]_vars

\* a push has just failed with NotAllowedError, the queue holds an entry
C4_Witness ==
    /\ ~allow_replace /\ ~allow_updates /\ ~allow_priority_updates
    /\ outcome = NotAllowedError
    /\ qsize(queue) > 0

\* C5: push_item_to_queue goes on to post_push exactly when the queue push
\* succeeded; a queue error is re-raised as it is and the step leaves every
\* Task and Job as it was
C5_PostPushIffPushed ==
    [][\A t \in Threads :
        /\ PushStep(t) =>
              LET r == PQPush(queue, th[t].item, maxsize, allow_replace,
                              allow_updates, allow_priority_updates) IN
              IF r.err = "ok"
              THEN th'[t].pc = "post_push" /\ outcome' = "none"
              ELSE /\ r.err \in PushErrors
                   /\ th'[t].pc = "idle"
                   /\ outcome' = r.err
                   /\ tasks' = tasks /\ jobs' = jobs
        /\ (th'[t].pc = "post_push" /\ Moves(t)) =>
              th[t].pc = "push"]_vars

\* a push has just been rejected by the queue while the store holds Tasks
C5_Witness ==
    /\ outcome \in PushErrors
    /\ tasks # {}
    /\ jobs # {}

\* C6: in push_items_to_queue an item the queue rejects with one of its
\* three errors does not end the batch, the loop goes on with the next item
\* and the batch never raises a queue error; the batch ends before the end
\* of its list only with another exception, which propagates
C6_BatchBestEffort ==
    [][\A t \in Threads :
        (th[t].op = "push_items_to_queue" /\ Moves(t)) =>
            /\ (/\ PushStep(t)
                /\ PQPush(queue, th[t].item, maxsize, allow_replace, allow_updates,
                          allow_priority_updates).err \in PushErrors)
               => IF th[t].left > 0
                  THEN /\ th'[t].pc = "push"
                       /\ th'[t].op = "push_items_to_queue"
                       /\ th'[t].left = th[t].left - 1
                  ELSE th'[t].pc = "idle" /\ outcome' = "ok"
            /\ th'[t].pc = "idle" => outcome' \in {"ok", StoreError}
            /\ (th'[t].pc = "idle" /\ th[t].left > 0) => outcome' = StoreError
            /\ outcome' = StoreError => th'[t].pc = "idle"]_vars

\* the queue has just rejected an item of a batch and the loop is at the
\* push of the next item
C6_Witness ==
    /\ outcome \in PushErrors
    /\ \E t \in Threads :
          th[t].op = "push_items_to_queue" /\ th[t].pc = "push" /\ th[t].left < MaxBatch - 1

\* thread t evaluates the loop condition of push_item_to_queue_with_timeout
TimeoutCheck(t) == th[t].pc = "wt_check" /\ Moves(t)

\* C7: with max_tries >= 0 push_item_to_queue_with_timeout sleeps at most
\* max_tries times, and a capacity check that finds no space is followed
\* by a sleep and another check or by QueueFullError, with the queue and the
\* store untouched
C7_TimeoutGivesUp ==
    /\ [](\A t \in Threads :
            (th[t].op = "push_item_to_queue_with_timeout" /\ th[t].max_tries >= 0)
            => th[t].tries <= th[t].max_tries)
    /\ [][\A t \in Threads :
            (TimeoutCheck(t) /\ th[t].max_tries >= 0 /\ ~is_space_on_queue) =>
                \/ /\ th'[t].pc = "wt_check"
                   /\ th'[t].tries = th[t].tries + 1
                   /\ outcome' = "none"
                \/ /\ th'[t].pc = "idle"
                   /\ outcome' = QueueFullError
                   /\ queue' = queue /\ tasks' = tasks /\ jobs' = jobs]_vars

\* a call with max_tries >= 1 has slept max_tries times and finds the queue
\* full again
C7_Witness ==
    \E t \in Threads :
        /\ th[t].pc = "wt_check"
        /\ th[t].max_tries >= 1
        /\ th[t].tries = th[t].max_tries
        /\ ~is_space_on_queue

\* C8: push_item_to_queue_with_timeout with max_tries = -1 never fails with
\* QueueFullError
C8_NeverQueueFull ==
    [][\A t \in Threads :
        (/\ th[t].op = "push_item_to_queue_with_timeout"
         /\ th[t].max_tries = -1
         /\ th'[t].pc = "idle")
        => outcome' # QueueFullError]_vars

\* C9: post_push for an item without a hash ends the call and leaves every
\* Task and Job as it was; no Task and no Job in the store carries a null hash
C9_NoHashNoStore ==
    /\ [](/\ \A r \in tasks : r.hash # NoHash
          /\ \A j \in jobs : j.hash # NoHash)
    /\ [][\A t \in Threads :
            (th[t].pc = "post_push" /\ th[t].item.hash = NoHash /\ Moves(t)) =>
                /\ th'[t].pc = "idle"
                /\ outcome' = "ok"
                /\ tasks' = tasks /\ jobs' = jobs]_vars

\* every call has returned, an item without a hash is on the queue and no
\* Task has its id
C9_Witness ==
    /\ \A t \in Threads : th[t].pc = "idle"
    /\ outcome = "ok"
    /\ \E i \in 1..Len(queue) :
          queue[i].hash = NoHash /\ get_task_by_id(queue[i].id) = {}

TaskIds(rows) == {r.id : r \in rows}

\* C10: the store holds at most one Task per item id; post_push for an id
\* that has a Task updates that Task and returns, it creates no Task and
\* no Job
C10_OneTaskPerId ==
    /\ [](\A i \in Ids : Cardinality(get_task_by_id(i)) <= 1)
    /\ [][\A t \in Threads :
            /\ (/\ th[t].pc = "post_push" /\ Moves(t)
                /\ th[t].item.hash # NoHash
                /\ get_task_by_id(th[t].item.id) # {})
               => /\ th'[t].pc \in {"pp_update_task", "idle"}
                  /\ tasks' = tasks /\ jobs' = jobs
            /\ (th[t].pc = "pp_update_task" /\ Moves(t))
               => /\ th'[t].pc = "idle"
                  /\ jobs' = jobs
                  /\ TaskIds(tasks') = TaskIds(tasks)
                  /\ Cardinality(tasks') = Cardinality(tasks)
                  /\ outcome' = "ok" => NewTask(th[t].item) \in tasks']_vars

\* post_push has found the Task of an item id that was pushed and popped
\* before and is about to update it
C10_Witness ==
    \E t \in Threads :
        /\ th[t].pc = "pp_update_task"
        /\ \E r \in get_task_by_id(th[t].item.id) : r.status = DISPATCHED

\* C11: post_push for an item with a hash and a new id, when its store calls
\* succeed: create_task adds the Task of the item id with status QUEUED;
\* a Job is created only enabled; after update_job the Job of the item's hash
\* that post_push holds is enabled in the store; and when the link is
\* persisted the store holds the Task of the item id with status QUEUED whose
\* job_id is the id of an enabled Job of the item's hash
C11_PostPushLinks ==
    [][\A t \in Threads :
        LET item == th[t].item IN
        /\ (th[t].pc = "pp_create_task" /\ th'[t].pc = "pp_get_job")
           => /\ get_task_by_id(item.id) = {}
              /\ tasks' = tasks \cup {NewTask(item)}
        /\ (th[t].pc = "pp_create_job" /\ th'[t].pc = "pp_update_job")
           => \E j \in jobs' \ jobs :
                 /\ jobs' = jobs \cup {j}
                 /\ j.hash = item.hash /\ j.enabled /\ j.id = th'[t].job_db
        /\ (th[t].pc = "pp_update_job" /\ th'[t].pc = "pp_link")
           => \E j \in jobs' :
                 j.id = th[t].job_db /\ j.hash = item.hash /\ j.enabled
        /\ (th[t].pc = "pp_link" /\ Moves(t) /\ tasks' # tasks)
           => /\ outcome' = "ok"
              /\ \E r \in tasks' :
                    /\ {x \in tasks' : x.id = item.id} = {r}
                    /\ r.status = QUEUED
                    /\ \E j \in jobs' :
                          j.id = r.job_id /\ j.hash = item.hash /\ j.enabled]_vars

\* a push has returned, the Job that was in the store disabled is enabled
\* and a QUEUED Task is linked to it
C11_Witness ==
    /\ outcome = "ok"
    /\ [StoredJob EXCEPT !.enabled = TRUE] \in jobs
    /\ \E r \in tasks : r.status = QUEUED /\ r.job_id = StoredJob.id

\* C12: when create_task does not create the Task, post_push ends there:
\* the Jobs, the Tasks and the queue are as before and push_item_to_queue
\* returns without raising
C12_CreateFailureTolerated ==
    [][\A t \in Threads :
        (th[t].pc = "pp_create_task" /\ Moves(t) /\ th'[t].pc # "pp_get_job")
        => /\ jobs' = jobs
           /\ tasks' = tasks
           /\ queue' = queue
           /\ th'[t].pc = "idle"
           /\ outcome' = "ok"]_vars

\* C13: when create_job or update_job fails, post_push ends there and
\* push_item_to_queue returns without raising; the step leaves the Tasks,
\* the Jobs and the queue as they were, the Task of the item id has no
\* job_id, and when no other call was made the store holds the Task as it
\* was created, QUEUED and unlinked, and the item is on the queue
C13_JobFailureTolerated ==
    [][\A t \in Threads :
        LET item == th[t].item IN
        (th[t].pc \in {"pp_create_job", "pp_update_job"} /\ Moves(t) /\ th'[t].pc = "idle")
        => /\ outcome' = "ok"
           /\ tasks' = tasks /\ jobs' = jobs /\ queue' = queue
           /\ th[t].task_db = NewTask(item)
           /\ get_task_by_id(item.id) # {}
           /\ \A r \in get_task_by_id(item.id) : r.job_id = NoJob
           /\ calls = 1 => /\ NewTask(item) \in tasks
                           /\ \E i \in 1..Len(queue) : queue[i] = item]_vars

\* the one call made has returned although its create_job failed: the Task
\* is QUEUED with no job_id, no Job exists and the item is on the queue
C13_Witness ==
    /\ calls = 1
    /\ outcome = "ok"
    /\ \A t \in Threads : th[t].pc = "idle"
    /\ jobs = {}
    /\ \E r \in tasks :
          /\ r.status = QUEUED /\ r.job_id = NoJob
          /\ \E i \in 1..Len(queue) : queue[i].id = r.id

\* C14: no store call of post_push makes push_item_to_queue raise: after
\* the queue push a push never ends with the store's error, and a list
\* given to push_items_to_queue ends only after its last item
C14_StoreFailureNonFatal ==
    [][\A t \in Threads :
        (/\ th[t].op \in {"push_item_to_queue", "push_items_to_queue"}
         /\ th[t].pc \notin {"idle", "push"}
         /\ Moves(t))
        => /\ outcome' # StoreError
           /\ th'[t].pc = "idle" => th[t].left = 0]_vars

Calls(ev, k) == {n \in 1..Len(events) : events[n].ev = ev /\ events[n].k = k}

\* C16: a call of stop() stops every listener, then joins every worker that
\* was registered when it was called, each once and with a wait of 5, and
\* last invokes the callback, when one is set, once with the scheduler's id:
\* no listener is stopped after a join, nothing is called after the callback
C16_StopOrder ==
    /\ \A m, n \in 1..Len(events) :
          m < n => /\ ~(events[m].ev = "join" /\ events[n].ev = "lst.stop")
                   /\ events[m].ev # "callback"
    /\ sp.pc \in {"threads", "callback", "stopped"}
       => \A k \in 1..Len(listeners) :
             listeners[k] = "stopped" /\ Cardinality(Calls("lst.stop", k)) = 1
    /\ sp.pc \in {"callback", "stopped"}
       => \A k \in 1..sp.registered :
             /\ Cardinality(Calls("join", k)) = 1
             /\ \A n \in Calls("join", k) : events[n].wait = 5
    /\ sp.pc # "stopped" => Calls("callback", 0) = {}
    /\ sp.pc = "stopped"
       => /\ Cardinality(Calls("callback", 0)) = (IF callback THEN 1 ELSE 0)
          /\ \A n \in Calls("callback", 0) : events[n].id = scheduler_id

\* stop() has returned: it stopped a listener, joined a worker that is still
\* alive after the wait, and invoked the callback
C16_Witness ==
    /\ sp.pc = "stopped"
    /\ Len(listeners) >= 1
    /\ sp.registered >= 1
    /\ \E k \in 1..sp.registered : threads[k].alive
    /\ callback
    /\ Calls("callback", 0) # {}

\* C17: the store never holds two Jobs with the same hash
C17_OneJobPerHash ==
    \A h \in Hashes : Cardinality(JobRows(h)) <= 1

C19_NoHistoryRanksTwo ==
    (rk.pc = "returned" /\ rk.prior_tasks \in {None, 0})
    => /\ rk.result = 2
       /\ rk.error = ""
       /\ rk.queries = 0

\* rank has returned 2 for a task whose history is an empty list
C19_Witness ==
    /\ rk.pc = "returned"
    /\ rk.prior_tasks = 0
    /\ rk.result = 2

\* C20: rank returns -1 whenever the last execution was modified less than
\* grace_period ago
C20_GraceRanksMinusOne ==
    (/\ rk.pc = "returned"
     /\ rk.prior_tasks >= 1
     /\ rk.age - rk.grace_period < 0)
    => rk.result = -1

\* the time elapsed since the end of the grace period of the last execution
Elapsed == rk.age - rk.grace_period

\* C21: rank returns 3 for every task with prior executions whose elapsed
\* time since the end of the grace period is at least MAX_DAYS days
C21_OverdueRanksThree ==
    (/\ rk.pc = "returned"
     /\ rk.prior_tasks >= 1
     /\ Elapsed >= MAX_DAYS * (60 * 60 * 24))
    => rk.result = 3

\* C22: for a task with prior executions rank does not increase with the
\* elapsed time: it is trunc(3 + (MAX_PRIORITY - 3) * (1 - e / (MAX_DAYS days)))
\* for 0 <= e <= MAX_DAYS days, MAX_PRIORITY at e = 0 and 3 at MAX_DAYS days,
\* and no earlier elapsed time ranks lower
C22_RankNonIncreasing ==
    (/\ rk.pc = "returned"
     /\ rk.prior_tasks >= 1
     /\ Elapsed >= 0)
    => /\ Elapsed <= MAX_DAYS * (60 * 60 * 24)
          => rk.result = 3 + ((MAX_PRIORITY - 3)
                              * (MAX_DAYS * (60 * 60 * 24) - Elapsed))
                             \div (MAX_DAYS * (60 * 60 * 24))
       /\ \A a \in Ages :
             (a <= rk.age /\ a - rk.grace_period >= 0)
             => rank(rk.prior_tasks, a, rk.grace_period).result >= rk.result

\* the call of the target of worker k ends in this step
TargetEnds(k) == threads[k].pc = "target" /\ threads'[k].pc # "target"

\* C23: an exception raised by the target of a looping worker does not end
\* the worker: it is alive afterwards and about to check the stop signal, its
\* run ends only with the stop signal set, and unless the signal is set the
\* target is called again
C23_WorkerSurvivesException ==
    /\ [][\A k \in 1..Len(threads) :
            /\ (TargetEnds(k) /\ threads[k].loop /\ threads'[k].raised)
               => threads'[k].alive /\ threads'[k].pc = "check"
            /\ (threads[k].loop /\ threads[k].alive /\ ~threads'[k].alive)
               => stop_event]_vars
    /\ \A k \in 1..MaxWorkers :
          (k <= Len(threads) /\ threads[k].loop /\ threads[k].raised
                             /\ threads[k].pc = "check")
          ~> (stop_event \/ (k <= Len(threads) /\ threads[k].pc = "target"))

\* the target of a worker raised and has been called again
C23_Witness ==
    \E k \in 1..Len(threads) :
        /\ threads[k].alive
        /\ threads[k].loop
        /\ threads[k].raised
        /\ threads[k].pc = "target"

\* C24: get_objects_by_object_types makes one request with limit 1 and
\* offset 0, then ceil(count / 1000) requests with limit 1000 at the offsets
\* 0, 1000, 2000, ...; when the objects of the service did not change during
\* the call it returns the count objects, each once; with count 0 it returns
\* the empty list after the first request
C24_Pagination ==
    oc.pc = "returned"
    => /\ Len(oc.requests) = 1 + (oc.count + PageLimit - 1) \div PageLimit
       /\ oc.requests[1].limit = 1
       /\ oc.requests[1].offset = 0
       /\ \A i \in 2..Len(oc.requests) :
             /\ oc.requests[i].limit = PageLimit
             /\ oc.requests[i].offset = (i - 2) * PageLimit
       /\ ~oc.changed
          => /\ Len(oc.oois) = oc.count
             /\ {oc.oois[i] : i \in 1..Len(oc.oois)} = 1..oc.count
       /\ oc.count = 0 => (Len(oc.requests) = 1 /\ oc.oois = <<>>)

\* the call has returned the objects of more than one page, the last page
\* not full
C24_Witness ==
    /\ oc.pc = "returned"
    /\ ~oc.changed
    /\ oc.count > PageLimit
    /\ oc.count % PageLimit # 0
    /\ Len(oc.oois) = oc.count

\* the parts of the text of the only message
Text == {rs.messages[1].text[i] : i \in 1..Len(rs.messages[1].text)}

C26_RankRange ==
    /\ (rk.pc = "returned" /\ rk.error = "")
       => /\ rk.result \in {-1, 2} \cup (3..MAX_PRIORITY)
          /\ rk.result # 1
    /\ rt.pc = "returned" => rt.result # 1

\* rank has returned a priority above 3 for a task with prior executions
C26_Witness ==
    /\ rk.pc = "returned"
    /\ rk.prior_tasks >= 1
    /\ rk.result \in 4..MAX_PRIORITY

\* the number of prior executions for which one call of rank may query the
\* object graph
MaxQueried == 10

\* C27: one call of rank queries the object graph (get_children_by_ooi and
\* get_findings_by_ooi) for at most MaxQueried prior executions, however many
\* the history returns
C27_QueriesBounded ==
    rk.pc = "returned" => rk.queries <= 2 * MaxQueried

\* C28: when a push of an item and the pop that took that item off the queue
\* have both returned, the Task of the item, if there is one, is DISPATCHED:
\* after one push and one pop the queue is empty again and no Task is QUEUED
C28_PoppedTaskDispatched ==
    (/\ calls = 2
     /\ \A t \in Threads : th[t].pc = "idle"
     /\ queue = <<>>)
    => \A r \in tasks : r.status = DISPATCHED

\* C29: with max_tries >= 0 a capacity check of
\* push_item_to_queue_with_timeout that finds space is followed by the push of
\* the item, never by QueueFullError
C29_SpaceFoundPushes ==
    [][\A t \in Threads :
        (TimeoutCheck(t) /\ th[t].max_tries >= 0 /\ is_space_on_queue)
        => /\ th'[t].pc = "push"
           /\ outcome' # QueueFullError]_vars

\* C30: once stop() has returned the shared stop signal is set, is_alive()
\* returns false, and it stays so
C30_StoppedIsNotAlive ==
    sp.pc = "stopped" => ~is_alive

\* C31: a call of pop_item_from_queue that has taken an item off the queue
\* returns it: the call does not end with an error of post_pop's store calls
C31_PoppedItemReturned ==
    [][\A t \in Threads :
        (/\ th[t].op = "pop_item_from_queue"
         /\ th[t].pc \in {"post_pop", "po_update_task"}
         /\ th'[t].pc = "idle")
        => outcome' = "ok"]_vars

\* C32: no step of a push or a pop sets a Task that is DISPATCHED back to
\* QUEUED, a push of an item id that was popped before included
C32_StatusNeverBackward ==
    [][\A r \in tasks :
        r.status = DISPATCHED
        => \A r2 \in tasks' : r2.id = r.id => r2.status # QUEUED]_vars

\* C33: the update-in-place of post_push for an item id whose Task exists
\* leaves the job_id of that Task as it was
C33_RepushKeepsLink ==
    [][\A t \in Threads :
        (th[t].pc = "pp_update_task" /\ Moves(t))
        => \A r \in tasks :
              r.id = th[t].item.id
              => \A r2 \in tasks' : r2.id = r.id => r2.job_id = r.job_id]_vars

\* the steps of a running push_item_to_queue, post_push included
PushSteps(t) ==
    \/ push_item_to_queue(t)
    \/ post_push(t)
    \/ post_push_update_task(t)
    \/ post_push_create_task(t)
    \/ post_push_get_job(t)
    \/ post_push_create_job(t)
    \/ post_push_update_job(t)
    \/ post_push_link(t)

\* the steps of a running pop_item_from_queue after the pop, post_pop
PopSteps(t) ==
    \/ post_pop(t)
    \/ post_pop_update_task(t)

\* producers and consumers: threads push single items and pop
Next ==
    \E t \in Threads :
        \/ \E item \in Items : call_push_item_to_queue(t, item)
        \/ PushSteps(t)
        \/ \E f \in Filters : pop_item_from_queue(t, f)
        \/ PopSteps(t)

Spec == Init /\ [][Next]_vars

\* populating threads: threads push lists of items
InitBatch == Init /\ ~allow_updates /\ ~allow_priority_updates

NextBatch ==
    \E t \in Threads :
        \/ \E n \in 0..MaxBatch : push_items_to_queue(t, n)
        \/ PushSteps(t)

SpecBatch == InitBatch /\ [][NextBatch]_vars

\* one thread pushes with push_item_to_queue_with_timeout while the others
\* push and pop
TimeoutThreads == {1}

InitTimeout == Init /\ ~allow_updates /\ ~allow_priority_updates

NextTimeout ==
    \E t \in Threads :
        \/ /\ t \in TimeoutThreads
           /\ \E item \in Items, mt \in -1..MaxTries :
                 call_push_item_to_queue_with_timeout(t, item, mt)
        \/ push_item_to_queue_with_timeout(t)
        \/ /\ t \notin TimeoutThreads
           /\ \E item \in Items : call_push_item_to_queue(t, item)
        \/ PushSteps(t)
        \/ /\ t \notin TimeoutThreads
           /\ \E f \in Filters : pop_item_from_queue(t, f)
        \/ PopSteps(t)

SpecTimeout == InitTimeout /\ [][NextTimeout]_vars

\* producers and consumers on a store that outlives the scheduler: the Job of
\* the hash may be in the store from an earlier run, disabled
InitStore ==
    /\ queue = <<>>
    /\ maxsize \in {0, MaxSize}
    /\ allow_replace \in BOOLEAN
    /\ allow_updates = FALSE
    /\ allow_priority_updates = FALSE
    /\ store_fails = TRUE
    /\ tasks = {}
    /\ jobs \in {{}, {StoredJob}}
    /\ th = [t \in Threads |-> Idle]
    /\ calls = 0
    /\ outcome = "none"
    /\ InitOutside

SpecStore == InitStore /\ [][Next]_vars

\* producers and consumers on a store of which every call succeeds: what is
\* left is the interleaving of the threads
InitRace ==
    /\ queue = <<>>
    /\ maxsize \in {0, MaxSize}
    /\ allow_replace \in BOOLEAN
    /\ allow_updates = FALSE
    /\ allow_priority_updates = FALSE
    /\ store_fails = FALSE
    /\ tasks = {}
    /\ jobs \in {{}, {StoredJob}}
    /\ th = [t \in Threads |-> Idle]
    /\ calls = 0
    /\ outcome = "none"
    /\ InitOutside

SpecRace == InitRace /\ [][Next]_vars

\* the lifecycle of a scheduler with some listeners and maybe a callback:
\* workers are started, run and end, and stop() is called once
InitStop ==
    /\ queue = <<>>
    /\ maxsize = 0
    /\ allow_replace = FALSE
    /\ allow_updates = FALSE
    /\ allow_priority_updates = FALSE
    /\ store_fails = TRUE
    /\ tasks = {}
    /\ jobs = {}
    /\ th = [t \in Threads |-> Idle]
    /\ calls = 0
    /\ outcome = "none"
    /\ listeners \in {[k \in 1..n |-> "listening"] : n \in 0..MaxListeners}
    /\ threads = <<>>
    /\ callback \in BOOLEAN
    /\ stop_event = FALSE
    /\ sp = Running
    /\ events = <<>>
    /\ InitServices

NextStop ==
    \/ \E loop \in BOOLEAN : run_in_thread(loop)
    \/ \E k \in 1..MaxWorkers : worker_calls_target(k)
    \/ \E k \in 1..MaxWorkers, exc \in BOOLEAN : worker_target_ends(k, exc)
    \/ \E k \in 1..MaxWorkers : worker_exits(k)
    \/ stop_event_set
    \/ call_stop
    \/ stop_listeners
    \/ stop_join
    \/ stop_callback

SpecStop == InitStop /\ [][NextStop]_vars

\* a started worker gets to run: when it can call its target it does
SpecStopFair ==
    SpecStop /\ \A k \in 1..MaxWorkers : WF_vars(worker_calls_target(k))

\* one call of BoefjeRanker.rank for every history, age and grace period, or
\* one call of BoefjeRankerTimeBased.rank for every clock
InitRank ==
    /\ queue = <<>>
    /\ maxsize = 0
    /\ allow_replace = FALSE
    /\ allow_updates = FALSE
    /\ allow_priority_updates = FALSE
    /\ store_fails = TRUE
    /\ tasks = {}
    /\ jobs = {}
    /\ th = [t \in Threads |-> Idle]
    /\ calls = 0
    /\ outcome = "none"
    /\ listeners = <<>>
    /\ threads = <<>>
    /\ callback = FALSE
    /\ stop_event = FALSE
    /\ sp = Running
    /\ events = <<>>
    /\ oc = NoObjects
    /\ rs = NoSchedule
    /\ \/ /\ rt = NoTimeRank
          /\ \E p \in {None} \cup (0..MaxPrior), a \in Ages, g \in GracePeriods :
                rk = [NoRank EXCEPT !.pc = "called", !.prior_tasks = p,
                                    !.age = a, !.grace_period = g]
       \/ /\ rk = NoRank
          /\ \E d \in Todays : rt = [NoTimeRank EXCEPT !.pc = "called", !.today = d]

NextRank ==
    \/ call_rank
    \/ call_rank_time_based

SpecRank == InitRank /\ [][NextRank]_vars

\* one call of get_objects_by_object_types for every number of objects and
\* scan_level, on a scheduler that does nothing else
InitOctopoes ==
    /\ queue = <<>>
    /\ maxsize = 0
    /\ allow_replace = FALSE
    /\ allow_updates = FALSE
    /\ allow_priority_updates = FALSE
    /\ store_fails = TRUE
    /\ tasks = {}
    /\ jobs = {}
    /\ th = [t \in Threads |-> Idle]
    /\ calls = 0
    /\ outcome = "none"
    /\ listeners = <<>>
    /\ threads = <<>>
    /\ callback = FALSE
    /\ stop_event = FALSE
    /\ sp = Running
    /\ events = <<>>
    /\ rk = NoRank
    /\ rt = NoTimeRank
    /\ rs = NoSchedule
    /\ \E n \in Totals, l \in ScanLevels :
          oc = [NoObjects EXCEPT !.pc = "called", !.total = n, !.scan_level = l]

NextOctopoes ==
    \/ get_objects_by_object_types
    \/ get_objects_page
    \/ get_objects_return
    \/ objects_change

SpecOctopoes == InitOctopoes /\ [][NextOctopoes]_vars

\* one call of schedule_task for every task type, outcome of the health
\* request and answer to the push, on a scheduler that does nothing else
InitRocky ==
    /\ queue = <<>>
    /\ maxsize = 0
    /\ allow_replace = FALSE
    /\ allow_updates = FALSE
    /\ allow_priority_updates = FALSE
    /\ store_fails = TRUE
    /\ tasks = {}
    /\ jobs = {}
    /\ th = [t \in Threads |-> Idle]
    /\ calls = 0
    /\ outcome = "none"
    /\ listeners = <<>>
    /\ threads = <<>>
    /\ callback = FALSE
    /\ stop_event = FALSE
    /\ sp = Running
    /\ events = <<>>
    /\ rk = NoRank
    /\ rt = NoTimeRank
    /\ oc = NoObjects
    /\ \E type \in TaskTypes, h \in Healths, code \in Answers :
          rs = [NoSchedule EXCEPT !.pc = "called", !.type = type,
                                  !.health = h, !.answer = code]

NextRocky ==
    \/ get_scheduler_client
    \/ push_task
    \/ schedule_task

SpecRocky == InitRocky /\ [][NextRocky]_vars
====
